---- MODULE Spec2Model ----
(***************************************************************************)
(* Flask-Security: the email-confirmation sub-flow (confirmable.py), the    *)
(* views of the HTTP surface (views.py) and the helpers they use           *)
(* (utils.py).                                                             *)
(*                                                                         *)
(* Values.  Timestamps are naturals, None is Null (-1).  Confirmation      *)
(* tokens are 1..NumTokens (the strings generate_token can return), the    *)
(* value None is NoneTok and the empty string is EmptyTok; both are falsy  *)
(* in `if not token`.  A user is identified by its id (its email); the     *)
(* datastore is the function users from the ids that exist to their rows.  *)
(***************************************************************************)
EXTENDS Integers, Sequences, FiniteSets, TLC

\* ---------------------------------------------------------------- bounds
MaxUsers == 2
NumTokens == 3
MaxTime == 2
Within == 1
MaxDraws == 2
ReconfigUsers == 1
NumProcs == 2
ViewUsers == 1

Tokens == 1..NumTokens
Procs == 1..NumProcs
Null == -1
NoneTok == 0
EmptyTok == -1
NoUser == 0
TokenArgs == Tokens \cup {NoneTok, EmptyTok}

VARIABLES
    users,      \* the datastore: id -> [confirmation_token, confirmation_sent_at, confirmed_at]
    now,        \* datetime.utcnow()
    config,     \* app.security: confirm_email, login_without_confirmation, confirm_email_within
    session,    \* the user logged in (flask-login), or NoUser
    resp,       \* what the request handled by the last step did: its outcome, the
                \* signals it emitted and the mails it dispatched, in order
    e2e,        \* progress of the end-to-end confirmation scenario on user 1
    procs,      \* the requests running reset_confirmation_token step by step:
                \* where each is, its user object and its candidate token
    retired     \* the token the last reset_confirmation_token replaced (NoneTok
                \* before the first reissue)

vars == <<users, now, config, session, resp, e2e, procs, retired>>

\* ------------------------------------------------------------ the world
\* What a helper reads and writes, passed through the calls of one handler:
\* the datastore, and the signals and mails of this request so far.
World == [users |-> users, signals |-> <<>>, mail |-> <<>>]

Truthy(token) == token \notin {NoneTok, EmptyTok}

\* datastore.find_user(confirmation_token=token): the rows that match.
find_user(w, token) == {u \in DOMAIN w.users : w.users[u].confirmation_token = token}

\* find_user_by_confirmation_token without its `if not token` guard.
find_user_unguarded(w, token) ==
    IF find_user(w, token) = {} THEN "UserNotFoundError" ELSE "found"

\* find_user_by_confirmation_token whose lookup reports every string as unknown.
find_user_never_found(w, token) ==
    IF ~Truthy(token) THEN "ConfirmationError" ELSE "UserNotFoundError"

\* find_user_by_confirmation_token: "required" | "notfound" | "found".
find_user_by_confirmation_token(w, token) ==
    IF ~Truthy(token) THEN "ConfirmationError"
    ELSE IF find_user(w, token) = {} THEN "UserNotFoundError"
    ELSE "found"

\* The rows a lookup of token can return (NoUser: the lookup raises).
Lookup(w, token) ==
    IF find_user_by_confirmation_token(w, token) = "found"
    THEN find_user(w, token) ELSE {NoUser}

\* should_confirm_email: the decorator of the two predicates.
should_confirm_email(v) == IF config.confirm_email THEN v ELSE FALSE

requires_confirmation(user) == should_confirm_email(user.confirmed_at = Null)

\* confirmation_token_is_expired with the comparison turned round.
expired_reversed(user) ==
    should_confirm_email(user.confirmation_sent_at > now - config.confirm_email_within)

\* confirmation_token_is_expired with <= for <.
expired_nonstrict(user) ==
    should_confirm_email(user.confirmation_sent_at <= now - config.confirm_email_within)

confirmation_token_is_expired(user) ==
    should_confirm_email(user.confirmation_sent_at < now - config.confirm_email_within)

\* -------------------------------------------------- token generation
\* utils.generate_token: the strings a draw can return.  The code only ever
\* compares tokens for equality, so the strings no user holds are
\* interchangeable: a draw returns a string some user holds (a collision) or
\* the least of those nobody holds, standing for all of them.
generate_token(w) ==
    LET held == {t \in Tokens : find_user(w, t) # {}}
        free == Tokens \ held
    IN held \cup {t \in free : \A x \in free : t <= x}

\* The candidates a run of the loop can draw, in order.
DrawSeqs(w) == UNION {[1..n -> generate_token(w)] : n \in 1..MaxDraws}

\* The loop breaking on its first candidate, whatever the probe says.
probe_loop_first(w, draws, i) == IF i > Len(draws) THEN 0 ELSE i

\* The while-loop of generate_confirmation_token over the candidates drawn:
\* the index of the first candidate no user holds (the break), 0 when every
\* candidate drawn so far is held (the loop is still running).
RECURSIVE probe_loop(_, _, _)
probe_loop(w, draws, i) ==
    IF i > Len(draws) THEN 0
    ELSE IF find_user_by_confirmation_token(w, draws[i]) = "UserNotFoundError" THEN i
    ELSE probe_loop(w, draws, i + 1)

\* The runs of the loop that end, each with its last draw.
Draws(w) == {d \in DrawSeqs(w) : probe_loop(w, d, 1) = Len(d)}

\* generate_confirmation_token(user): the user object with both fields set.
generate_confirmation_token(w, user, draws) ==
    [user EXCEPT !.confirmation_token = draws[probe_loop(w, draws, 1)],
                 !.confirmation_sent_at = now]

\* datastore._save_model(user)
save_model(w, u, user) ==
    [w EXCEPT !.users = [i \in DOMAIN w.users \cup {u} |->
                            IF i = u THEN user ELSE w.users[i]]]

\* send_confirmation_instructions(user): one mail whose link carries the
\* user's token, then the confirm_instructions_sent signal.
send_confirmation_instructions(w, u) ==
    [w EXCEPT !.mail = Append(@, [to |-> u, link |-> w.users[u].confirmation_token]),
              !.signals = Append(@, <<"confirm_instructions_sent", u>>)]

\* reset_confirmation_token that sends again without generating a token.
resend_only(w, u, draws) == send_confirmation_instructions(w, u)

\* reset_confirmation_token that sends the instructions before it generates
\* and saves the token.
reset_send_first(w, u, draws) ==
    LET sent == send_confirmation_instructions(w, u) IN
    save_model(sent, u, generate_confirmation_token(sent, sent.users[u], draws))

\* reset_confirmation_token that stamps confirmation_sent_at and keeps the token.
reset_restamping(w, u, draws) ==
    send_confirmation_instructions(
        save_model(w, u, [w.users[u] EXCEPT !.confirmation_sent_at = now]), u)

\* reset_confirmation_token that also sets confirmed_at back to None.
reset_unconfirming(w, u, draws) ==
    send_confirmation_instructions(
        save_model(w, u, [generate_confirmation_token(w, w.users[u], draws)
                             EXCEPT !.confirmed_at = Null]), u)

\* reset_confirmation_token(user): generate, save, then send.
reset_confirmation_token(w, u, draws) ==
    send_confirmation_instructions(
        save_model(w, u, generate_confirmation_token(w, w.users[u], draws)), u)

\* ------------------------------------------------------ confirm_by_token
Outcome(w, exc, msg, user, finds, saves) ==
    [w |-> w, exc |-> exc, msg |-> msg, user |-> user, finds |-> finds, saves |-> saves]

\* The already-confirmed check left out.
never_confirmed(user) == FALSE

\* `if user.confirmed_at:`
already_confirmed(user) == user.confirmed_at # Null

\* TokenExpiredError raised without the user.
token_expired_no_user(w, found) ==
    Outcome(w, "TokenExpiredError", "Confirmation token is expired", NoUser, 1, 0)

\* raise TokenExpiredError(message=..., user=user)
token_expired_error(w, found) ==
    Outcome(w, "TokenExpiredError", "Confirmation token is expired", found, 1, 0)

\* The success path without the user_confirmed signal.
confirm_user_silently(w, found) ==
    Outcome(save_model(w, found, [w.users[found] EXCEPT !.confirmed_at = now]),
            "", "", found, 1, 1)

\* The success path with the two commented-out lines restored: the token is
\* cleared on confirmation.
confirm_user_consuming(w, found) ==
    Outcome([save_model(w, found, [w.users[found] EXCEPT !.confirmed_at = now,
                                                         !.confirmation_token = NoneTok,
                                                         !.confirmation_sent_at = Null])
                EXCEPT !.signals = Append(@, <<"user_confirmed", found>>)],
            "", "", found, 1, 1)

\* The success path: stamp confirmed_at, save, emit user_confirmed, return user.
confirm_user(w, found) ==
    Outcome([save_model(w, found, [w.users[found] EXCEPT !.confirmed_at = now])
                EXCEPT !.signals = Append(@, <<"user_confirmed", found>>)],
            "", "", found, 1, 1)

\* confirm_by_token with the expiry check ahead of the already-confirmed check.
confirm_by_token_expiry_first(w, token, found) ==
    LET looked == find_user_by_confirmation_token(w, token) IN
    IF looked = "ConfirmationError"
    THEN Outcome(w, "ConfirmationError", "Confirmation token required", NoUser, 0, 0)
    ELSE IF looked = "UserNotFoundError"
    THEN Outcome(w, "ConfirmationError", "Invalid confirmation token", NoUser, 1, 0)
    ELSE IF config.confirm_email /\ w.users[found].confirmation_sent_at = Null
    THEN Outcome(w, "TypeError", "", found, 1, 0)
    ELSE IF confirmation_token_is_expired(w.users[found])
    THEN token_expired_error(w, found)
    ELSE IF already_confirmed(w.users[found])
    THEN Outcome(w, "ConfirmationError", "Account has already been confirmed", found, 1, 0)
    ELSE confirm_user(w, found)

\* confirm_by_token(token), `found` being the row the lookup returned.  With
\* confirmation on, a row whose confirmation_sent_at is None makes the
\* comparison in confirmation_token_is_expired raise TypeError.
confirm_by_token(w, token, found) ==
    LET looked == find_user_by_confirmation_token(w, token) IN
    IF looked = "ConfirmationError"
    THEN Outcome(w, "ConfirmationError", "Confirmation token required", NoUser, 0, 0)
    ELSE IF looked = "UserNotFoundError"
    THEN Outcome(w, "ConfirmationError", "Invalid confirmation token", NoUser, 1, 0)
    ELSE IF already_confirmed(w.users[found])
    THEN Outcome(w, "ConfirmationError", "Account has already been confirmed", found, 1, 0)
    ELSE IF config.confirm_email /\ w.users[found].confirmation_sent_at = Null
    THEN Outcome(w, "TypeError", "", found, 1, 0)
    ELSE IF confirmation_token_is_expired(w.users[found])
    THEN token_expired_error(w, found)
    ELSE confirm_user(w, found)

\* ------------------------------------------------------------ responses
\* op(arg) raised exc or returned ret (the user `user`, a redirect, a truth
\* value); a view caught `caught` and flashed msg; finds and saves count the
\* calls of datastore.find_user and datastore._save_model.
Resp(op, arg, exc, caught, msg, user, finds, saves, redirect, w) ==
    [op |-> op, arg |-> arg, exc |-> exc, caught |-> caught, msg |-> msg,
     user |-> user, finds |-> finds, saves |-> saves, ret |-> redirect,
     signals |-> w.signals, mail |-> w.mail, category |-> "", flashed |-> FALSE,
     outcome |-> ""]

\* utils.do_flash, called with the positional arguments args while the
\* application's SECURITY_FLASH_MESSAGES is flash_messages: a call without
\* both of (message, category) raises TypeError; otherwise the message is
\* flashed when flash messages are on.
do_flash(args, flash_messages) ==
    IF Len(args) # 2
    THEN [exc |-> "TypeError", category |-> "", flashed |-> FALSE]
    ELSE [exc |-> "", category |-> args[2], flashed |-> flash_messages]

\* The response r of a view, with what its call of do_flash did.
Flash(r, f) == [r EXCEPT !.category = f.category, !.flashed = f.flashed]

\* The response r of a view, with what the collaborator it called did (the
\* auth provider in authenticate, reset_by_token in reset).
After(r, outcome) == [r EXCEPT !.outcome = outcome]

Idle == Resp("", 0, "", "", "", NoUser, 0, 0, "", [signals |-> <<>>, mail |-> <<>>])

\* ------------------------------------------- the end-to-end scenario
\* now - confirmation_sent_at > confirm_email_within, as the scenario words it.
IsStale(user) == now - user.confirmation_sent_at > config.confirm_email_within

\* The scenario's observer: which stage the request (op, arg), made in the
\* current state, takes the scenario to.  Time may pass between the requests;
\* any request that is not the scenario's next one ends the observation.
E2ENext(op, arg) ==
    IF e2e = "start" /\ op = "register" /\ arg = 1 /\ config.confirm_email
       /\ DOMAIN users = {}
    THEN "registered"
    ELSE IF e2e = "registered" /\ op = "confirm" /\ Truthy(arg)
            /\ find_user(World, arg) = {}
    THEN "unknown_tried"
    ELSE IF e2e = "unknown_tried" /\ op = "confirm" /\ 1 \in find_user(World, arg)
            /\ IsStale(users[1])
    THEN "reissued"
    ELSE IF e2e = "reissued" /\ op = "confirm" /\ 1 \in find_user(World, arg)
            /\ ~IsStale(users[1])
    THEN "confirmed"
    ELSE "off"

\* -------------------------------------------------------------- actions
\* A user record with no field set yet.
NewUser == [confirmation_token |-> NoneTok, confirmation_sent_at |-> Null,
            confirmed_at |-> Null]

\* datastore.create_user(**form.to_dict()): the new row, with a confirmation
\* token minted when confirmation is on, saved.
create_user(w, u, draws) ==
    save_model(w, u, IF config.confirm_email
                     THEN generate_confirmation_token(w, NewUser, draws)
                     ELSE NewUser)

\* _do_login(user) for the caller whose session is sess: login_user accepts
\* the user (an active one) or not; when it does the caller is logged in as
\* the user and identity_changed is sent with the user's identity.
do_login(w, sess, u, accepts) ==
    IF accepts
    THEN [w |-> [w EXCEPT !.signals = Append(@, <<"identity_changed", u>>)],
          session |-> u, ret |-> TRUE]
    ELSE [w |-> w, session |-> sess, ret |-> FALSE]

\* views.register sending user_registered for a form that does not validate.
register_signalling(w, valid, u, draws) ==
    IF valid
    THEN LET created == create_user(w, u, draws)
             signalled == [created EXCEPT !.signals = Append(@, <<"user_registered", u>>)]
             sent == IF config.confirm_email
                     THEN send_confirmation_instructions(signalled, u)
                     ELSE signalled
             login == IF ~config.confirm_email \/ config.login_without_confirmation
                      THEN do_login(sent, session, u, TRUE)
                      ELSE [w |-> sent, session |-> session, ret |-> FALSE]
         IN [w |-> login.w, session |-> login.session,
             redirect |-> "post_register_view"]
    ELSE [w |-> [w EXCEPT !.signals = Append(@, <<"user_registered", u>>)],
          session |-> session, redirect |-> "referrer or register_url"]

\* views.register logging the new user in only when both flags are on.
register_login_if_both(w, valid, u, draws) ==
    IF valid
    THEN LET created == create_user(w, u, draws)
             signalled == [created EXCEPT !.signals = Append(@, <<"user_registered", u>>)]
             sent == IF config.confirm_email
                     THEN send_confirmation_instructions(signalled, u)
                     ELSE signalled
             login == IF config.confirm_email /\ config.login_without_confirmation
                      THEN do_login(sent, session, u, TRUE)
                      ELSE [w |-> sent, session |-> session, ret |-> FALSE]
         IN [w |-> login.w, session |-> login.session,
             redirect |-> "post_register_view"]
    ELSE [w |-> w, session |-> session, redirect |-> "referrer or register_url"]

\* views.register, for a form that validates or not.  The user just created
\* is an active one, which login_user accepts.
register(w, valid, u, draws) ==
    IF valid
    THEN LET created == create_user(w, u, draws)
             signalled == [created EXCEPT !.signals = Append(@, <<"user_registered", u>>)]
             sent == IF config.confirm_email
                     THEN send_confirmation_instructions(signalled, u)
                     ELSE signalled
             login == IF ~config.confirm_email \/ config.login_without_confirmation
                      THEN do_login(sent, session, u, TRUE)
                      ELSE [w |-> sent, session |-> session, ret |-> FALSE]
         IN [w |-> login.w, session |-> login.session,
             redirect |-> "post_register_view"]
    ELSE [w |-> w, session |-> session, redirect |-> "referrer or register_url"]

Register(valid, draws) ==
    LET u == Cardinality(DOMAIN users) + 1
        r == register(World, valid, u, draws)
    IN /\ users' = r.w.users
       /\ session' = r.session
       /\ resp' = Resp("register", IF valid THEN 1 ELSE 0, "", "", "",
                       IF valid THEN u ELSE NoUser,
                       Len(draws), IF valid THEN 1 ELSE 0, r.redirect, r.w)
       /\ e2e' = E2ENext("register", IF valid THEN 1 ELSE 0)
       /\ UNCHANGED <<now, config, procs, retired>>

\* Whether confirm_by_token(token) raises TokenExpiredError, so that the
\* confirm view goes on to reissue a token and runs the probing loop.
WillExpire(token, found) == confirm_by_token(World, token, found).exc = "TokenExpiredError"

\* views.confirm whose TokenExpiredError handler only flashes the message.
confirm_without_reissue(w, token, found, draws, flash_messages) ==
    LET r == confirm_by_token(w, token, found) IN
    [w |-> r.w, exc |-> IF r.exc \in {"ConfirmationError", "TokenExpiredError", ""}
                        THEN "" ELSE r.exc,
     caught |-> IF r.exc \in {"ConfirmationError", "TokenExpiredError"} THEN r.exc ELSE "",
     msg |-> r.msg, user |-> r.user, finds |-> r.finds, saves |-> r.saves,
     redirect |-> IF r.exc = "" THEN "post_confirm_view" ELSE "/",
     flash |-> do_flash(<<r.msg, IF r.exc = "" THEN "success" ELSE "error">>,
                        flash_messages)]

\* views.confirm: the request's confirmation_token argument is `token`.
confirm(w, token, found, draws, flash_messages) ==
    LET r == confirm_by_token(w, token, found) IN
    IF r.exc = "ConfirmationError"
    THEN [w |-> r.w, exc |-> "", caught |-> r.exc, msg |-> r.msg, user |-> r.user,
          finds |-> r.finds, saves |-> r.saves, redirect |-> "/",
          flash |-> do_flash(<<r.msg, "error">>, flash_messages)]
    ELSE IF r.exc = "TokenExpiredError"
    THEN [w |-> reset_confirmation_token(r.w, r.user, draws), exc |-> "",
          caught |-> r.exc, msg |-> "A new confirmation code has been sent",
          user |-> r.user, finds |-> r.finds + Len(draws), saves |-> r.saves + 1,
          redirect |-> "/",
          flash |-> do_flash(<<"A new confirmation code has been sent", "error">>,
                             flash_messages)]
    ELSE IF r.exc # ""
    THEN [w |-> r.w, exc |-> r.exc, caught |-> "", msg |-> "", user |-> r.user,
          finds |-> r.finds, saves |-> r.saves, redirect |-> "",
          flash |-> [exc |-> "", category |-> "", flashed |-> FALSE]]
    ELSE [w |-> r.w, exc |-> "", caught |-> "", msg |-> "Your email has been confirmed",
          user |-> r.user, finds |-> r.finds, saves |-> r.saves,
          redirect |-> "post_confirm_view",
          flash |-> do_flash(<<"Your email has been confirmed", "success">>,
                             flash_messages)]

Confirm(token, found, draws, flash_messages) ==
    LET r == confirm(World, token, found, draws, flash_messages) IN
    /\ users' = r.w.users
    /\ resp' = Flash(Resp("confirm", token, r.exc, r.caught, r.msg, r.user, r.finds,
                          r.saves, r.redirect, r.w), r.flash)
    /\ e2e' = E2ENext("confirm", token)
    /\ retired' = (IF WillExpire(token, found) THEN token ELSE retired)
    /\ UNCHANGED <<now, config, session, procs>>

\* confirm_by_token called on its own.
ConfirmByToken(token, found) ==
    LET r == confirm_by_token(World, token, found) IN
    /\ users' = r.w.users
    /\ resp' = Resp("confirm_by_token", token, r.exc, "", r.msg, r.user, r.finds,
                    r.saves, "", r.w)
    /\ e2e' = E2ENext("confirm_by_token", token)
    /\ UNCHANGED <<now, config, session, procs, retired>>

\* reset_confirmation_token called on its own, on a persisted user.
ResetConfirmationToken(u, draws) ==
    LET w == reset_confirmation_token(World, u, draws) IN
    /\ users' = w.users
    /\ resp' = Resp("reset_confirmation_token", u, "", "", "", u, Len(draws), 1, "", w)
    /\ e2e' = E2ENext("reset_confirmation_token", u)
    /\ retired' = users[u].confirmation_token
    /\ UNCHANGED <<now, config, session, procs>>

\* confirmation_token_is_expired(user) called on its own, on a persisted user.
\* With confirmation on, a user never sent a token has confirmation_sent_at
\* None, and comparing None with a datetime raises TypeError.
ConfirmationTokenIsExpired(u) ==
    LET raises == config.confirm_email /\ users[u].confirmation_sent_at = Null IN
    /\ resp' = Resp("confirmation_token_is_expired", u,
                    IF raises THEN "TypeError" ELSE "", "", "", u, 0, 0,
                    IF raises THEN ""
                    ELSE IF confirmation_token_is_expired(users[u]) THEN "True"
                    ELSE "False",
                    World)
    /\ e2e' = E2ENext("confirmation_token_is_expired", u)
    /\ UNCHANGED <<users, now, config, session, procs, retired>>

\* The application is deployed again with another configuration; the
\* datastore persists.
Reconfigure(c) ==
    /\ c # config
    /\ config' = c
    /\ resp' = Idle
    /\ e2e' = E2ENext("reconfigure", 0)
    /\ UNCHANGED <<users, now, session, procs, retired>>

\* Time passes between two requests.
Tick ==
    /\ now < MaxTime
    /\ now' = now + 1
    /\ resp' = Idle
    /\ UNCHANGED <<users, config, session, e2e, procs, retired>>

\* ------------------------------------- reset_confirmation_token, stepwise
\* Requests handled by different threads or processes interleave at the
\* datastore calls.  Each request of Procs runs reset_confirmation_token(user) once, on its own user
\* object: draw a candidate, probe the datastore for it, assign, save, send.
IdleProc == [pc |-> "idle", user |-> NoUser, cand |-> NoneTok, obj |-> NewUser]

\* reset_confirmation_token(user) is entered, user being a persisted user
\* whose token has expired.  The requests are interchangeable: they are
\* numbered in the order they arrive.
CStart(p, u) ==
    /\ procs[p].pc = "idle"
    /\ \A q \in Procs : q < p => procs[q].pc # "idle"
    /\ users[u].confirmation_token # NoneTok
    /\ IsStale(users[u])
    /\ procs' = [procs EXCEPT ![p] = [pc |-> "draw", user |-> u, cand |-> NoneTok,
                                      obj |-> users[u]]]
    /\ UNCHANGED <<users, now, config, session, resp, e2e, retired>>

\* The strings a draw can return to a running request: one a user holds or
\* another request has drawn, or the least of the others (see generate_token).
DrawTokens ==
    LET used == {t \in Tokens : \/ find_user(World, t) # {}
                                \/ \E q \in Procs : procs[q].cand = t}
        rest == Tokens \ used
    IN used \cup {t \in rest : \A x \in rest : t <= x}

\* token = generate_token()
CDraw(p, t) ==
    /\ procs[p].pc = "draw"
    /\ procs' = [procs EXCEPT ![p].cand = t, ![p].pc = "probe"]
    /\ UNCHANGED <<users, now, config, session, resp, e2e, retired>>

\* The probe that never breaks the loop.
CProbeAgain(p) ==
    /\ procs[p].pc = "probe"
    /\ procs' = [procs EXCEPT ![p].pc = "draw"]
    /\ UNCHANGED <<users, now, config, session, resp, e2e, retired>>

\* find_user_by_confirmation_token(token): UserNotFoundError breaks the loop.
CProbe(p) ==
    /\ procs[p].pc = "probe"
    /\ procs' = [procs EXCEPT ![p].pc =
                    IF find_user_by_confirmation_token(World, procs[p].cand)
                           = "UserNotFoundError"
                    THEN "assign" ELSE "draw"]
    /\ UNCHANGED <<users, now, config, session, resp, e2e, retired>>

\* now = datetime.utcnow(); both fields are set on the user object.
CAssign(p) ==
    /\ procs[p].pc = "assign"
    /\ procs' = [procs EXCEPT ![p].obj = [@ EXCEPT !.confirmation_token = procs[p].cand,
                                                   !.confirmation_sent_at = now],
                              ![p].pc = "save"]
    /\ UNCHANGED <<users, now, config, session, resp, e2e, retired>>

\* _datastore._save_model(user)
CSave(p) ==
    /\ procs[p].pc = "save"
    /\ users' = save_model(World, procs[p].user, procs[p].obj).users
    /\ procs' = [procs EXCEPT ![p].pc = "send"]
    /\ retired' = users[procs[p].user].confirmation_token
    /\ UNCHANGED <<now, config, session, resp, e2e>>

\* send_confirmation_instructions(user), on the request's user object.
CSend(p) ==
    LET u == procs[p].user
        w == send_confirmation_instructions(
                 [World EXCEPT !.users = [i \in {u} |-> procs[p].obj]], u)
    IN /\ procs[p].pc = "send"
       /\ resp' = Resp("reset_confirmation_token", u, "", "", "", u, 0, 1, "", w)
       /\ procs' = [procs EXCEPT ![p] = [IdleProc EXCEPT !.pc = "done"]]
       /\ UNCHANGED <<users, now, config, session, e2e, retired>>

\* ------------------------------------------------- the other views
\* What _security.auth_provider.authenticate(form) can do: return a user of
\* the datastore, raise BadCredentialsError, or raise another Exception.
ProviderOutcomes == {"user", "BadCredentialsError", "Exception"}

\* views.authenticate whose catch-all lets the exception through.
authenticate_no_catch_all(w, sess, outcome, u, accepts, flash_messages) ==
    LET login == IF outcome = "user" THEN do_login(w, sess, u, accepts)
                 ELSE [w |-> w, session |-> sess, ret |-> FALSE]
        msg == IF outcome = "BadCredentialsError" THEN "str(e)" ELSE "Inactive user"
    IN IF login.ret
       THEN [w |-> login.w, session |-> login.session, exc |-> "", caught |-> "",
             msg |-> "", redirect |-> "post_login_redirect",
             flash |-> [exc |-> "", category |-> "", flashed |-> FALSE]]
       ELSE IF outcome = "Exception"
       THEN [w |-> login.w, session |-> login.session, exc |-> "Exception",
             caught |-> "", msg |-> "", redirect |-> "",
             flash |-> [exc |-> "", category |-> "", flashed |-> FALSE]]
       ELSE [w |-> login.w, session |-> login.session, exc |-> "",
             caught |-> "BadCredentialsError", msg |-> msg,
             redirect |-> "referrer or login_view",
             flash |-> do_flash(<<msg, "error">>, flash_messages)]

\* views.authenticate.  The provider's outcome is `outcome`, u the user it
\* returns; a user login_user does not accept raises
\* BadCredentialsError('Inactive user') inside the try block.
authenticate(w, sess, outcome, u, accepts, flash_messages) ==
    LET login == IF outcome = "user" THEN do_login(w, sess, u, accepts)
                 ELSE [w |-> w, session |-> sess, ret |-> FALSE]
        caught == IF outcome = "Exception" THEN "Exception" ELSE "BadCredentialsError"
        msg == IF outcome = "Exception" THEN "Unknown authentication error"
               ELSE IF outcome = "BadCredentialsError" THEN "str(e)"
               ELSE "Inactive user"
    IN IF login.ret
       THEN [w |-> login.w, session |-> login.session, exc |-> "", caught |-> "",
             msg |-> "", redirect |-> "post_login_redirect",
             flash |-> [exc |-> "", category |-> "", flashed |-> FALSE]]
       ELSE [w |-> login.w, session |-> login.session, exc |-> "", caught |-> caught,
             msg |-> msg, redirect |-> "referrer or login_view",
             flash |-> do_flash(<<msg, "error">>, flash_messages)]

Authenticate(outcome, u, accepts, flash_messages) ==
    LET r == authenticate(World, session, outcome, u, accepts, flash_messages) IN
    /\ session' = r.session
    /\ resp' = After(Flash(Resp("authenticate", IF accepts THEN 1 ELSE 0, r.exc,
                                r.caught, r.msg, u, 0, 0, r.redirect, r.w), r.flash),
                     outcome)
    /\ e2e' = E2ENext("authenticate", 0)
    /\ UNCHANGED <<users, now, config, procs, retired>>

\* views.logout: the identity keys leave the session, identity_changed is
\* sent with the anonymous identity, logout_user.
Logout ==
    /\ session' = NoUser
    /\ resp' = Resp("logout", 0, "", "", "", session, 0, 0, "next or post_logout_view",
                    [World EXCEPT !.signals = Append(@, <<"identity_changed", NoUser>>)])
    /\ e2e' = E2ENext("logout", 0)
    /\ UNCHANGED <<users, now, config, procs, retired>>

\* recoverable.reset_password_reset_token(user): instructions to reset the
\* password are mailed to the user and password_reset_requested is sent.  The
\* link carries the password-reset token, which the rows of this model do not
\* hold.
reset_password_reset_token(w, u) ==
    [w EXCEPT !.mail = Append(@, [to |-> u, link |-> NoneTok]),
              !.signals = Append(@, <<"password_reset_requested", u>>)]

\* views.forgot: the form validates or not; email is the address submitted,
\* which _datastore.find_user finds or raises UserNotFoundError for.
forgot(w, valid, email, flash_messages) ==
    IF ~valid
    THEN [w |-> w, exc |-> "", caught |-> "", msg |-> "", user |-> NoUser,
          redirect |-> "render security/passwords/new.html",
          flash |-> [exc |-> "", category |-> "", flashed |-> FALSE]]
    ELSE IF email \in DOMAIN w.users
    THEN [w |-> reset_password_reset_token(w, email), exc |-> "", caught |-> "",
          msg |-> "Instructions to reset your password have been sent",
          user |-> email, redirect |-> "post_forgot_view",
          flash |-> do_flash(<<"Instructions to reset your password have been sent",
                               "success">>, flash_messages)]
    ELSE [w |-> w, exc |-> "", caught |-> "UserNotFoundError",
          msg |-> "The email you provided could not be found", user |-> NoUser,
          redirect |-> "post_forgot_view",
          flash |-> do_flash(<<"The email you provided could not be found", "error">>,
                             flash_messages)]

Forgot(valid, email, flash_messages) ==
    LET r == forgot(World, valid, email, flash_messages) IN
    /\ resp' = Flash(Resp("forgot", email, r.exc, r.caught, r.msg, r.user,
                          IF valid THEN 1 ELSE 0, 0, r.redirect, r.w), r.flash)
    /\ e2e' = E2ENext("forgot", 0)
    /\ UNCHANGED <<users, now, config, session, procs, retired>>

\* What recoverable.reset_by_token(**form.to_dict()) can do: return the user
\* ("") or raise one of the two errors the reset view has handlers for.
ResetOutcomes == {"", "ResetPasswordError", "TokenExpiredError"}

\* views.reset: the form validates or not; outcome is what reset_by_token
\* does.  The handler of TokenExpiredError calls do_flash with the message
\* alone, and an exception raised in a handler leaves the view.
reset(valid, outcome, flash_messages) ==
    LET f == IF ~valid \/ outcome = ""
             THEN [exc |-> "", category |-> "", flashed |-> FALSE]
             ELSE IF outcome = "ResetPasswordError"
             THEN do_flash(<<"str(e)", "error">>, flash_messages)
             ELSE do_flash(<<"You did not reset your password within">>, flash_messages)
    IN [exc |-> f.exc,
        caught |-> IF valid THEN outcome ELSE "",
        msg |-> IF ~valid \/ outcome = "" THEN ""
                ELSE IF outcome = "ResetPasswordError" THEN "str(e)"
                ELSE "You did not reset your password within",
        redirect |-> IF f.exc = "" THEN "referrer or reset_password_error_view" ELSE "",
        flash |-> f]

Reset(valid, outcome, flash_messages) ==
    LET r == reset(valid, outcome, flash_messages) IN
    /\ resp' = After(Flash(Resp("reset", IF valid THEN 1 ELSE 0, r.exc, r.caught,
                                r.msg, NoUser, 0, 0, r.redirect, World), r.flash),
                     outcome)
    /\ e2e' = E2ENext("reset", 0)
    /\ UNCHANGED <<users, now, config, session, procs, retired>>

Configs == [confirm_email : BOOLEAN, login_without_confirmation : BOOLEAN,
            confirm_email_within : {Within}]

Init ==
    /\ users = [i \in {} |-> 0]
    /\ now = 0
    /\ config \in Configs
    /\ session = NoUser
    /\ resp = Idle
    /\ e2e = "start"
    /\ procs = [p \in Procs |-> IdleProc]
    /\ retired = NoneTok

\* The requests of the HTTP surface.
NextRegister ==
    \E valid \in BOOLEAN :
      /\ valid => Cardinality(DOMAIN users) < MaxUsers
      /\ \E draws \in (IF valid /\ config.confirm_email THEN Draws(World) ELSE {<<>>}) :
           Register(valid, draws)

NextConfirm ==
    \E token \in TokenArgs : \E found \in Lookup(World, token) :
      \E draws \in (IF WillExpire(token, found) THEN Draws(World) ELSE {<<>>}) :
        \E flash_messages \in BOOLEAN :
          Confirm(token, found, draws, flash_messages)

\* The calls of the confirmable helpers on their own.
NextConfirmByToken ==
    \E token \in TokenArgs : \E found \in Lookup(World, token) :
      ConfirmByToken(token, found)

\* reset_confirmation_token is called on the users whose token has expired.
NextResetConfirmationToken ==
    \E u \in DOMAIN users :
      /\ users[u].confirmation_token # NoneTok
      /\ IsStale(users[u])
      /\ \E draws \in Draws(World) : ResetConfirmationToken(u, draws)

NextConfirmationTokenIsExpired ==
    \E u \in DOMAIN users : ConfirmationTokenIsExpired(u)

NextReconfigure ==
    \E c \in Configs : Reconfigure(c)

NextAuthenticate ==
    \E outcome \in ProviderOutcomes :
      \E u \in (IF outcome = "user" THEN DOMAIN users ELSE {NoUser}) :
        \E accepts \in (IF outcome = "user" THEN BOOLEAN ELSE {FALSE}) :
          \E flash_messages \in BOOLEAN :
            Authenticate(outcome, u, accepts, flash_messages)

NextForgot ==
    \E valid \in BOOLEAN : \E email \in (IF valid THEN 1..MaxUsers ELSE {NoUser}) :
      \E flash_messages \in BOOLEAN :
        Forgot(valid, email, flash_messages)

NextReset ==
    \E valid \in BOOLEAN : \E outcome \in (IF valid THEN ResetOutcomes ELSE {""}) :
      \E flash_messages \in BOOLEAN :
        Reset(valid, outcome, flash_messages)

\* The HTTP surface, under the configuration the application was built with.
Next ==
    \/ NextRegister
    \/ NextConfirm
    \/ Tick

Spec == Init /\ [][Next]_vars

\* All the views of the HTTP surface, over up to ViewUsers users.
ViewRegister ==
    /\ Cardinality(DOMAIN users) < ViewUsers
    /\ NextRegister

ViewNext ==
    \/ ViewRegister
    \/ NextConfirm
    \/ NextAuthenticate
    \/ Logout
    \/ NextForgot
    \/ NextReset
    \/ Tick

ViewSpec == Init /\ [][ViewNext]_vars

\* The confirmable helpers called on their own, on the users registered.
HelperNext ==
    \/ NextRegister
    \/ NextConfirmByToken
    \/ NextResetConfirmationToken
    \/ Tick

HelperSpec == Init /\ [][HelperNext]_vars

\* The helpers over a datastore that outlives the configuration: up to
\* ReconfigUsers users register, and the configuration changes between requests.
ConfigRegister ==
    /\ Cardinality(DOMAIN users) < ReconfigUsers
    /\ NextRegister

ConfigNext ==
    \/ ConfigRegister
    \/ NextConfirmByToken
    \/ NextConfirmationTokenIsExpired
    \/ NextReconfigure
    \/ Tick

ConfigSpec == Init /\ [][ConfigNext]_vars

\* Requests that reissue tokens concurrently, over the users registered.
ConcRegister ==
    /\ \A p \in Procs : procs[p].pc = "idle"
    /\ NextRegister

ConcNext ==
    \/ ConcRegister
    \/ Tick
    \/ \E p \in Procs : \E u \in DOMAIN users : CStart(p, u)
    \/ \E p \in Procs : \E t \in DrawTokens : CDraw(p, t)
    \/ \E p \in Procs : CProbe(p)
    \/ \E p \in Procs : CAssign(p)
    \/ \E p \in Procs : CSave(p)
    \/ \E p \in Procs : CSend(p)

ConcSpec == Init /\ [][ConcNext]_vars

\* One request running generate_confirmation_token step by step.  utils.generate_token
\* returns os.urandom bytes: a value that is possible at every draw is not
\* missed for ever (strong fairness of the draws of a token no user holds),
\* and a request that has drawn goes on to probe (weak fairness).
LoopNext ==
    \/ ConcRegister
    \/ Tick
    \/ \E u \in DOMAIN users : CStart(1, u)
    \/ \E t \in DrawTokens : CDraw(1, t)
    \/ CProbe(1)
    \/ CAssign(1)
    \/ CSave(1)
    \/ CSend(1)

DrawsFreeToken == \E t \in DrawTokens : find_user(World, t) = {} /\ CDraw(1, t)

LoopSpec ==
    /\ Init
    /\ [][LoopNext]_vars
    /\ SF_vars(DrawsFreeToken)
    /\ WF_vars(CProbe(1))

\* ================================================================ claims
\* How often x occurs in the sequence seq.
Count(seq, x) == Cardinality({i \in DOMAIN seq : seq[i] = x})

\* The signals named name in seq.
Named(seq, name) == {i \in DOMAIN seq : seq[i][1] = name}

\* Whether some persisted user holds token, in the current datastore.
Holder(token) == {u \in DOMAIN users : users[u].confirmation_token = token}

\* C1: the end-to-end confirmation flow, confirmation required.  Registering
\* user 1 fires exactly one confirmation-sent notification, for user 1; then a
\* confirm request with an unknown token is answered with a confirmation error
\* and changes nothing; then a confirm request with user 1's expired token is
\* answered as token-expired, gives user 1 another token and fires one more
\* confirmation-sent notification while user 1 stays unconfirmed; then a
\* confirm request with user 1's fresh token succeeds, sets confirmed_at and
\* fires exactly one confirmed notification.
EndToEndConfirmation ==
    [][ /\ (e2e = "start" /\ e2e' = "registered") =>
              /\ Named(resp'.signals, "confirm_instructions_sent") # {}
              /\ Count(resp'.signals, <<"confirm_instructions_sent", 1>>) = 1
              /\ Cardinality(Named(resp'.signals, "confirm_instructions_sent")) = 1
              /\ users'[1].confirmed_at = Null
        /\ (e2e = "registered" /\ e2e' = "unknown_tried") =>
              /\ resp'.caught = "ConfirmationError"
              /\ resp'.exc = ""
              /\ resp'.signals = <<>>
              /\ resp'.mail = <<>>
              /\ UNCHANGED <<users, session>>
        /\ (e2e = "unknown_tried" /\ e2e' = "reissued") =>
              /\ resp'.caught = "TokenExpiredError"
              /\ resp'.exc = ""
              /\ users'[1].confirmation_token \in Tokens
              /\ users'[1].confirmation_token # users[1].confirmation_token
              /\ resp'.signals = << <<"confirm_instructions_sent", 1>> >>
              /\ users'[1].confirmed_at = Null
        /\ (e2e = "reissued" /\ e2e' = "confirmed") =>
              /\ resp'.caught = ""
              /\ resp'.exc = ""
              /\ users'[1].confirmed_at # Null
              /\ resp'.signals = << <<"user_confirmed", 1>> >>
      ]_vars

\* C1 witness: the four requests of the scenario have been made, in order.
EndToEndConfirmed == e2e = "confirmed" /\ users[1].confirmed_at # Null

\* C2 as claimed: in every configuration, a confirm_by_token that succeeds found
\* the holder unconfirmed and its confirmation_sent_at within
\* confirm_email_within of now.
ValidOnlyWhileFresh ==
    [][ (resp'.op = "confirm_by_token" /\ resp'.exc = "") =>
            /\ users[resp'.user].confirmed_at = Null
            /\ ~IsStale(users[resp'.user])
      ]_vars

\* C2 amended: a confirm_by_token that succeeds found the holder unconfirmed
\* and, when confirmation is on, its confirmation_sent_at within
\* confirm_email_within of now; with confirmation off the age is not checked.
ValidOnlyWhileFreshWhenOn ==
    [][ (resp'.op = "confirm_by_token" /\ resp'.exc = "") =>
            /\ users[resp'.user].confirmed_at = Null
            /\ config.confirm_email => ~IsStale(users[resp'.user])
      ]_vars

\* C2 witness: with confirmation on, a token is accepted at the very end of
\* its window.
ConfirmedAtWindowEnd ==
    /\ resp.op = "confirm_by_token" /\ resp.exc = ""
    /\ config.confirm_email
    /\ now - users[resp.user].confirmation_sent_at = config.confirm_email_within

\* C3: a token that generate_confirmation_token assigns to a user (on
\* registration or on reissue) is held by no user of the datastore at the
\* time it is assigned.
AssignedTokenNotHeld ==
    [][ (resp'.op \in {"register", "reset_confirmation_token"}
         /\ resp'.user # NoUser
         /\ users'[resp'.user].confirmation_token # NoneTok) =>
            Holder(users'[resp'.user].confirmation_token) = {}
      ]_vars

\* C3 witness: the second user's registration drew the first user's token,
\* probed, and drew again.
RegisteredAfterCollision ==
    /\ resp.op = "register" /\ resp.user = 2 /\ resp.finds = 2
    /\ users[1].confirmation_token \in Tokens
    /\ users[2].confirmation_token \in Tokens

\* Two persisted users hold the same confirmation token.
DuplicateTokens ==
    \E u \in DOMAIN users : \E v \in DOMAIN users :
        /\ u # v
        /\ users[u].confirmation_token \in Tokens
        /\ users[u].confirmation_token = users[v].confirmation_token

\* C4: uniqueness is probed, not guarded.  A request leaves the loop only on a
\* candidate that no persisted user holds when it probes, and its save makes
\* two users hold the same token only when another request has saved as well;
\* the state in which two persisted users hold the same token is reached
\* (DuplicateAfterRace).
ProbedNotGuarded ==
    [][ \A p \in Procs :
          /\ (procs[p].pc = "probe" /\ procs'[p].pc = "assign") =>
                Holder(procs[p].cand) = {}
          /\ (procs[p].pc = "save" /\ procs'[p].pc = "send"
              /\ \E v \in DOMAIN users \ {procs[p].user} :
                    users[v].confirmation_token = procs[p].obj.confirmation_token) =>
                \E q \in Procs \ {p} : procs[q].pc \in {"send", "done"}
      ]_vars

\* C4 witness: two requests, each probing before the other saved, have left
\* two persisted users with the same token.
DuplicateAfterRace ==
    /\ DuplicateTokens
    /\ \A p \in {1, 2} : procs[p].pc \in {"send", "done"}

\* C5: confirmation_token_is_expired(user) returns true exactly when
\* confirmation is on and now - confirmation_sent_at > confirm_email_within
\* (at equality it returns false); with confirmation off it returns false for
\* every user.
ExpiredIffOnAndStale ==
    (resp.op = "confirmation_token_is_expired") =>
        /\ resp.exc = "" =>
              /\ resp.ret \in {"True", "False"}
              /\ (resp.ret = "True") <=>
                    (config.confirm_email /\ IsStale(users[resp.arg]))
        /\ ~config.confirm_email => (resp.exc = "" /\ resp.ret = "False")

\* C5 witness: the predicate answered false at the very end of the window,
\* with confirmation on.
NotExpiredAtWindowEnd ==
    /\ resp.op = "confirmation_token_is_expired" /\ resp.ret = "False"
    /\ config.confirm_email
    /\ now - users[resp.arg].confirmation_sent_at = config.confirm_email_within

\* C6: confirm_by_token with None or the empty string raises ConfirmationError
\* and nothing else, and makes no datastore lookup, no save and no notification.
MissingTokenIsConfirmationError ==
    [][ (resp'.op = "confirm_by_token" /\ resp'.arg \in {NoneTok, EmptyTok}) =>
            /\ resp'.exc = "ConfirmationError"
            /\ resp'.finds = 0
            /\ resp'.saves = 0
            /\ resp'.signals = <<>>
            /\ resp'.mail = <<>>
            /\ UNCHANGED users
      ]_vars

\* C6 witness: confirm_by_token(None) was called while a persisted user's
\* confirmation_token is None.
MissingTokenTried ==
    /\ resp.op = "confirm_by_token" /\ resp.arg = NoneTok
    /\ Holder(NoneTok) # {}

\* C7: confirm_by_token with the token of an already-confirmed user raises
\* ConfirmationError and leaves the datastore as it was: no save, no confirmed
\* notification.
AlreadyConfirmedIsUntouched ==
    [][ (resp'.op = "confirm_by_token" /\ Truthy(resp'.arg)
         /\ \E u \in Holder(resp'.arg) : users[u].confirmed_at # Null) =>
            /\ resp'.exc = "ConfirmationError"
            /\ resp'.saves = 0
            /\ resp'.signals = <<>>
            /\ UNCHANGED users
      ]_vars

\* C7 witness: the token of a user confirmed earlier was presented again.
ConfirmedTokenTriedAgain ==
    /\ resp.op = "confirm_by_token" /\ Truthy(resp.arg)
    /\ \E u \in Holder(resp.arg) :
          users[u].confirmed_at # Null /\ users[u].confirmed_at < now

\* C8: confirm_by_token with the expired token of an unconfirmed user raises
\* TokenExpiredError carrying the user that holds the token, and the call
\* leaves confirmed_at None and the token fields as they were.
ExpiredCarriesUser ==
    [][ \A u \in DOMAIN users :
          (resp'.op = "confirm_by_token" /\ Truthy(resp'.arg)
           /\ users[u].confirmation_token = resp'.arg
           /\ users[u].confirmed_at = Null
           /\ config.confirm_email /\ IsStale(users[u])) =>
              /\ resp'.exc = "TokenExpiredError"
              /\ resp'.user = u
              /\ resp'.saves = 0
              /\ users'[u] = users[u]
      ]_vars

\* C8 witness: an unconfirmed user's token was presented after its window.
ExpiredTokenTried ==
    /\ resp.op = "confirm_by_token" /\ Truthy(resp.arg)
    /\ config.confirm_email
    /\ \E u \in Holder(resp.arg) : users[u].confirmed_at = Null /\ IsStale(users[u])

\* C9: reset_confirmation_token(user) on a persisted user whose token has
\* expired gives the user another token than the expired one and a
\* confirmation_sent_at of now, dispatches exactly one email (whose link
\* carries the new token) and emits exactly one confirmation-sent notification.
ResetReissuesOnce ==
    [][ (resp'.op = "reset_confirmation_token") =>
          LET u == resp'.arg IN
            /\ users'[u].confirmation_token \in Tokens
            /\ users'[u].confirmation_token # users[u].confirmation_token
            /\ users'[u].confirmation_sent_at = now
            /\ resp'.mail = << [to |-> u, link |-> users'[u].confirmation_token] >>
            /\ resp'.signals = << <<"confirm_instructions_sent", u>> >>
      ]_vars

\* C9 witness: a user whose token had expired holds a token stamped now.
ResetDone ==
    /\ resp.op = "reset_confirmation_token"
    /\ users[resp.arg].confirmation_sent_at = now
    /\ now > config.confirm_email_within

\* C10: a confirm_by_token with a known token of an unconfirmed user whose
\* token is not expired sets confirmed_at, saves the user and emits exactly one
\* confirmed notification, for that user; a confirm_by_token that raises
\* emits no confirmed notification.
ConfirmStampsAndNotifiesOnce ==
    [][ /\ \A u \in DOMAIN users :
              (resp'.op = "confirm_by_token" /\ Truthy(resp'.arg)
               /\ users[u].confirmation_token = resp'.arg
               /\ users[u].confirmed_at = Null
               /\ ~(config.confirm_email /\ IsStale(users[u]))) =>
                  /\ resp'.exc = ""
                  /\ resp'.user = u
                  /\ users'[u].confirmed_at # Null
                  /\ resp'.saves = 1
                  /\ resp'.signals = << <<"user_confirmed", u>> >>
        /\ (resp'.op = "confirm_by_token" /\ resp'.exc # "") =>
              Named(resp'.signals, "user_confirmed") = {}
      ]_vars

\* C10 witness: a confirm_by_token has just confirmed a user.
ConfirmSucceeded ==
    /\ resp.op = "confirm_by_token" /\ resp.exc = ""
    /\ users[resp.user].confirmed_at = now

\* C11: a register request with a valid form sends exactly one confirmation
\* email when confirm_email is on and none when it is off, and leaves the
\* caller logged in as the new user exactly when confirm_email is off or
\* login_without_confirmation is on; otherwise the caller's session is as it was.
RegisterMailsAndLogsIn ==
    [][ (resp'.op = "register" /\ resp'.arg = 1) =>
          LET u == resp'.user IN
            /\ Len(resp'.mail) = (IF config.confirm_email THEN 1 ELSE 0)
            /\ config.confirm_email => resp'.mail[1].to = u
            /\ (session' = u) <=>
                  (~config.confirm_email \/ config.login_without_confirmation)
            /\ (session' # u) => session' = session
      ]_vars

\* C11 witness: with confirmation required and auto-login disabled, a
\* registration has sent one email and left the caller anonymous.
RegisteredUnauthenticated ==
    /\ resp.op = "register" /\ resp.arg = 1
    /\ config.confirm_email /\ ~config.login_without_confirmation
    /\ Len(resp.mail) = 1
    /\ session = NoUser

\* C12 as claimed: in the views confirm, forgot and reset, every domain error
\* the helper raises (ConfirmationError, TokenExpiredError, UserNotFoundError,
\* ResetPasswordError) is caught by the view and answered by a call of
\* do_flash with a message and a category and by a redirect, and no request
\* to these views ends with an exception leaving the view.
ViewsCatchDomainErrors ==
    [][ (resp'.op \in {"confirm", "forgot", "reset"}) =>
            /\ resp'.exc = ""
            /\ (resp'.caught # "") =>
                  /\ resp'.msg # ""
                  /\ resp'.category = "error"
                  /\ resp'.ret # ""
      ]_vars

\* C13: authenticate logs the caller in only when the auth provider returns a
\* user and login_user accepts that user; on every other outcome (the provider
\* raises BadCredentialsError, the user is inactive, the provider raises another
\* exception) the caller's session is as it was, do_flash is called with an
\* error message (the error's own message for BadCredentialsError, 'Inactive
\* user' for an inactive user, 'Unknown authentication error' otherwise), the
\* response is the redirect to the referrer or the login view, and no exception
\* leaves the view.
AuthenticateLogsInOrFlashes ==
    [][ (resp'.op = "authenticate") =>
          LET ok == resp'.outcome = "user" /\ resp'.arg = 1 IN
            /\ resp'.exc = ""
            /\ ok => /\ session' = resp'.user
                      /\ resp'.signals = << <<"identity_changed", resp'.user>> >>
                      /\ resp'.ret = "post_login_redirect"
                      /\ resp'.category = ""
            /\ ~ok => /\ session' = session
                       /\ resp'.signals = <<>>
                       /\ resp'.category = "error"
                       /\ resp'.msg = (IF resp'.outcome = "BadCredentialsError"
                                        THEN "str(e)"
                                        ELSE IF resp'.outcome = "user"
                                        THEN "Inactive user"
                                        ELSE "Unknown authentication error")
                       /\ resp'.ret = "referrer or login_view"
      ]_vars

\* C13 witness: the provider raised an exception that is no
\* BadCredentialsError, and the anonymous caller was answered with the generic
\* message.
UnknownAuthenticationError ==
    /\ resp.op = "authenticate" /\ resp.outcome = "Exception"
    /\ resp.msg = "Unknown authentication error"
    /\ DOMAIN users # {} /\ session = NoUser

\* C14: a confirm_by_token that succeeds leaves the user's confirmation_token
\* and confirmation_sent_at as they were, so that the token presented still
\* resolves to that user in the datastore afterwards.
ConfirmKeepsToken ==
    [][ (resp'.op = "confirm_by_token" /\ resp'.exc = "") =>
          LET u == resp'.user IN
            /\ users'[u].confirmation_token = users[u].confirmation_token
            /\ users'[u].confirmation_sent_at = users[u].confirmation_sent_at
            /\ users'[u].confirmation_token = resp'.arg
            /\ u \in find_user([users |-> users'], resp'.arg)
      ]_vars

\* C14 witness: the user just confirmed is still the one its token resolves to.
ConfirmedTokenStillResolves ==
    /\ resp.op = "confirm_by_token" /\ resp.exc = ""
    /\ users[resp.user].confirmed_at # Null
    /\ Holder(resp.arg) = {resp.user}

\* C15: over the calls of confirm_by_token and reset_confirmation_token (and
\* the registrations that create the users), a user's confirmed_at, once set,
\* is never modified or cleared, and a confirmed notification is emitted for
\* a user only by the call that takes its confirmed_at from None to a value,
\* once: so each user is confirmed, and notified as confirmed, at most once.
ConfirmedAtMostOnce ==
    [][ \A u \in DOMAIN users' :
          LET before == IF u \in DOMAIN users THEN users[u].confirmed_at ELSE Null
              turns == before = Null /\ users'[u].confirmed_at # Null
          IN /\ before # Null => users'[u].confirmed_at = before
             /\ Count(resp'.signals, <<"user_confirmed", u>>) = (IF turns THEN 1 ELSE 0)
      ]_vars

\* C15 witness: a user confirmed earlier was given another token by
\* reset_confirmation_token, and a confirm_by_token with that token was refused.
ReconfirmationRefused ==
    /\ resp.op = "confirm_by_token" /\ resp.exc = "ConfirmationError"
    /\ \E u \in Holder(resp.arg) :
          /\ users[u].confirmed_at # Null
          /\ users[u].confirmation_sent_at > users[u].confirmed_at

\* C16 as claimed: once reset_confirmation_token has replaced a token, the old
\* token resolves to no user, and every later confirm request with it is
\* answered 'Invalid confirmation token', confirms nobody and reissues nothing.
OldTokenNeverResolves ==
    [][ /\ (retired' # NoneTok) =>
              {u \in DOMAIN users' : users'[u].confirmation_token = retired'} = {}
        /\ (resp'.op = "confirm" /\ retired # NoneTok /\ resp'.arg = retired) =>
              /\ resp'.caught = "ConfirmationError"
              /\ resp'.msg = "Invalid confirmation token"
              /\ resp'.mail = <<>>
              /\ UNCHANGED users
      ]_vars

\* C16 amended: the confirm request that reissues a token leaves the old token
\* resolving to no user, and for as long as no user holds the old token (the
\* same string may be generated again for some user: replaced tokens are not
\* remembered) a confirm request with it is answered 'Invalid confirmation
\* token', confirms nobody and reissues nothing.
OldTokenUnresolvedUntilReused ==
    [][ /\ (resp'.op = "confirm" /\ resp'.caught = "TokenExpiredError") =>
              /\ retired' = resp'.arg
              /\ {u \in DOMAIN users' : users'[u].confirmation_token = retired'} = {}
        /\ (resp'.op = "confirm" /\ retired # NoneTok /\ resp'.arg = retired
             /\ Holder(retired) = {}) =>
              /\ resp'.caught = "ConfirmationError"
              /\ resp'.msg = "Invalid confirmation token"
              /\ resp'.mail = <<>>
              /\ resp'.signals = <<>>
              /\ UNCHANGED users
      ]_vars

\* C16 witness: a confirm request with the token a reissue replaced, which no
\* user holds, was answered 'Invalid confirmation token'.
OldTokenRefused ==
    /\ resp.op = "confirm" /\ retired # NoneTok /\ resp.arg = retired
    /\ Holder(retired) = {}
    /\ resp.msg = "Invalid confirmation token"

\* C17: the already-confirmed check comes before the expiry check.  A confirm
\* request with the token of a user who is already confirmed and whose token
\* has also expired is answered with the confirmation error 'Account has
\* already been confirmed'; it reissues no token, sends no email and emits no
\* confirmation-sent notification.
ConfirmedBeforeExpired ==
    [][ (resp'.op = "confirm" /\ Truthy(resp'.arg) /\ config.confirm_email
         /\ \E u \in Holder(resp'.arg) :
                users[u].confirmed_at # Null /\ IsStale(users[u])) =>
            /\ resp'.caught = "ConfirmationError"
            /\ resp'.msg = "Account has already been confirmed"
            /\ resp'.exc = ""
            /\ resp'.mail = <<>>
            /\ resp'.signals = <<>>
            /\ UNCHANGED <<users, retired>>
      ]_vars

\* C17 witness: a confirm request came with the expired token of a user
\* confirmed earlier.
ConfirmedAndExpiredTried ==
    /\ resp.op = "confirm" /\ Truthy(resp.arg) /\ config.confirm_email
    /\ resp.msg = "Account has already been confirmed"
    /\ \E u \in Holder(resp.arg) : users[u].confirmed_at # Null /\ IsStale(users[u])

\* C18: reset_confirmation_token saves the new token before it sends the
\* email.  When a confirm request reissues a token, the email it sends goes to
\* the user of the expired token, and the token in its link is the
\* confirmation_token the datastore holds for that user at that moment: the
\* new one, not the one presented.
ReissueMailCarriesStoredToken ==
    [][ (resp'.op = "confirm" /\ resp'.caught = "TokenExpiredError") =>
          LET u == resp'.user IN
            /\ resp'.saves = 1
            /\ Len(resp'.mail) = 1
            /\ resp'.mail[1].to = u
            /\ resp'.mail[1].link = users'[u].confirmation_token
            /\ resp'.mail[1].link # resp'.arg
      ]_vars

\* C18 witness: a confirm request has reissued a token and mailed it.
ReissueMailed ==
    /\ resp.op = "confirm" /\ resp.caught = "TokenExpiredError"
    /\ Len(resp.mail) = 1
    /\ users[resp.user].confirmation_sent_at = now
    /\ users[resp.user].confirmation_token # resp.arg

\* C19: a register request whose form does not validate has no effect: no
\* user is created or changed, no registered or confirmation-sent notification
\* fires, no email is sent and the caller's session is as it was; the response
\* is the redirect to the referrer or the register URL.
InvalidRegisterHasNoEffect ==
    [][ (resp'.op = "register" /\ resp'.arg = 0) =>
            /\ UNCHANGED <<users, session>>
            /\ resp'.signals = <<>>
            /\ resp'.mail = <<>>
            /\ resp'.saves = 0
            /\ resp'.exc = ""
            /\ resp'.ret = "referrer or register_url"
      ]_vars

\* C19 witness: a form that does not validate was submitted to an application
\* that has a user and whose configuration would have logged a new user in.
InvalidRegisterTried ==
    /\ resp.op = "register" /\ resp.arg = 0
    /\ DOMAIN users # {}
    /\ config.confirm_email /\ config.login_without_confirmation

\* C20: the collision-probing loop of generate_confirmation_token.  A probe
\* that finds the candidate held sends the request back to draw again, and the
\* loop is left only on a candidate no user holds; while the request is in
\* the loop its user object and the datastore are as they were (both fields
\* are assigned after the loop); and when some token is held by no user and
\* candidates are drawn fairly, a request in the loop reaches the assignment.
ProbeLoopTerminates ==
    /\ [][ /\ (procs[1].pc = "probe" /\ procs'[1] # procs[1]) =>
                 procs'[1].pc = (IF Holder(procs[1].cand) # {} THEN "draw" ELSE "assign")
           /\ (procs[1].pc \in {"draw", "probe"}) =>
                 /\ procs'[1].obj = procs[1].obj
                 /\ procs[1].obj = users[procs[1].user]
                 /\ UNCHANGED users
         ]_vars
    /\ ((procs[1].pc = "draw" /\ \E t \in Tokens : Holder(t) = {})
            ~> (procs[1].pc = "assign"))

\* C20 witness: a request is back at the draw after a probe found its
\* candidate held.
DrawingAgain ==
    /\ procs[1].pc = "draw"
    /\ procs[1].cand \in Tokens
    /\ Holder(procs[1].cand) # {}

====
